---- MODULE Spec2Model ----
(***************************************************************************)
(* Span export pipeline of test-llm-otel-logging.                          *)
(*                                                                         *)
(* The repository holds the pipeline twice:                                *)
(*   "root"      src/otel_llm_log.py        TrackingSpanExporter,          *)
(*               _create_otlp_exporter_no_ssl, _get_endpoint, main         *)
(*   "langgraph" src/langgraph/otel_export.py + agent_otel.py              *)
(*               LoggingSpanExporter, create_otlp_exporter_no_ssl,         *)
(*               get_otlp_endpoint, main                                   *)
(* The variable variant says which copy a behaviour runs.                  *)
(*                                                                         *)
(* Three specifications share the variables:                               *)
(*   Spec          host main + batch processor + result-tracking wrapper   *)
(*   SpecSend      one delivery client and its _export (POST attempts)     *)
(*   SpecEndpoint  endpoint resolution from the two environment values     *)
(***************************************************************************)
EXTENDS Integers, Sequences, FiniteSets, TLC

VARIABLES
    variant,      \* "root" or "langgraph": which copy of the pipeline runs
    \* ---- host, processor and wrapper (Spec)
    hpc,          \* position of the host's main
    spansMade,    \* spans the workload has ended so far
    buffered,     \* spans waiting in the batch processor
    last_result,  \* wrapper.last_result
    last_error,   \* wrapper.last_error
    exitStatus,   \* status the host process exited with (NoExit while running)
    exportCalls,  \* number of completed export calls on the wrapper
    lastInner,    \* outcome of the inner exporter in the most recent call
    lastOut,      \* what the wrapper's export gave its caller in that call
    anyFailed,    \* some export call of the run returned non-success or raised
    \* ---- delivery client (SpecSend)
    spc,          \* position inside _export
    sends,        \* number of _export calls started
    attempts,     \* the POSTs of the current _export, in order, with their results
    sendOut,      \* how the current _export ended
    log,          \* records logger.error / logger.exception wrote in this _export
    compression,  \* self._compression of the delivery client
    serialized_data, \* the argument of the current _export
    data,         \* the local data of the current _export: the bytes to send
    posted,       \* the data= argument of each POST of the current _export
    \* ---- endpoint resolution (SpecEndpoint)
    epc,          \* position of the resolution
    tracesEnv,    \* OTEL_EXPORTER_OTLP_TRACES_ENDPOINT ("" when unset)
    genericEnv,   \* OTEL_EXPORTER_OTLP_ENDPOINT ("" when unset)
    endpoint,     \* the resolved endpoint
    \* ---- calls on the wrapper by its owner (SpecApi)
    closed,       \* shutdown() has been called on the inner exporter
    wrapperCalls, \* the calls made on the wrapper, in order
    innerCalls,   \* the calls the wrapper made on the inner exporter, in order
    lastApi       \* the most recent call on the wrapper: what the inner call
                  \* did and what the wrapper gave its caller

vars == <<variant, hpc, spansMade, buffered, last_result, last_error, exitStatus,
          exportCalls, lastInner, lastOut, anyFailed,
          spc, sends, attempts, sendOut, log,
          compression, serialized_data, data, posted,
          epc, tracesEnv, genericEnv, endpoint,
          closed, wrapperCalls, innerCalls, lastApi>>

pipelineVars == <<hpc, spansMade, buffered, last_result, last_error, exitStatus,
                  exportCalls, lastInner, lastOut, anyFailed>>
sendVars == <<spc, sends, attempts, sendOut, log,
              compression, serialized_data, data, posted>>
endpointVars == <<epc, tracesEnv, genericEnv, endpoint>>
apiVars == <<closed, wrapperCalls, innerCalls, lastApi>>

Variants == {"root", "langgraph"}

(***************************************************************************)
(* Values                                                                  *)
(***************************************************************************)
\* Python's None where a SpanExportResult is expected
None == "None"
\* SpanExportResult
SUCCESS == "SUCCESS"
FAILURE == "FAILURE"
\* the host has not exited
NoExit == -1

\* Exception classes a POST or an export can raise.  requests.exceptions:
\*   ConnectionError(RequestException), Timeout(RequestException),
\*   ConnectTimeout(ConnectionError, Timeout), ReadTimeout(Timeout);
\* "Exception" stands for any exception outside requests.
ExceptionClasses ==
    {"ConnectionError", "ConnectTimeout", "ReadTimeout", "RequestException", "Exception"}

\* isinstance(e, base) for the classes named in the except clauses
IsInstance(cls, base) ==
    CASE base = "ConnectionError"  -> cls \in {"ConnectionError", "ConnectTimeout"}
      [] base = "Timeout"          -> cls \in {"ConnectTimeout", "ReadTimeout"}
      [] base = "RequestException" -> cls \in {"ConnectionError", "ConnectTimeout",
                                               "ReadTimeout", "RequestException"}
      [] base = "Exception"        -> TRUE

\* An exception object: its class and an identity (the call that raised it)
Exc(cls, id) == [cls |-> cls, id |-> id]
NoError == [cls |-> "None", id |-> 0]

\* How a call ended: it returned a value or it raised
Returned(r) == [kind |-> "returned", result |-> r, error |-> NoError]
Raised(e) == [kind |-> "raised", result |-> None, error |-> e]
NoCall == [kind |-> "none", result |-> None, error |-> NoError]

(***************************************************************************)
(* Bounds                                                                  *)
(***************************************************************************)
\* spans the workload ends in one run
MaxSpans == 3

(***************************************************************************)
(* Result-tracking wrapper                                                 *)
(***************************************************************************)
\* TrackingSpanExporter.export with a wrong except branch: the exception is
\* turned into a FAILURE return
TrackingSpanExporter_export_swallow(inner, lr) ==
    IF inner.kind = "returned"
    THEN [last_result |-> inner.result, last_error |-> NoError, out |-> Returned(inner.result)]
    ELSE [last_result |-> FAILURE, last_error |-> inner.error, out |-> Returned(FAILURE)]

\* TrackingSpanExporter.export(spans): inner is what self._delegate.export(spans)
\* does, lr the last_result before the call.  The result is the wrapper's
\* state after the call and what the call gives its caller.
TrackingSpanExporter_export(inner, lr) ==
    IF inner.kind = "returned"
    THEN \* last_error = None; last_result = delegate.export(spans); return it
         [last_result |-> inner.result, last_error |-> NoError, out |-> Returned(inner.result)]
    ELSE \* except: last_error = e; last_result = FAILURE; raise
         [last_result |-> FAILURE, last_error |-> inner.error, out |-> Raised(inner.error)]

\* LoggingSpanExporter.export(spans): as above, but the except branch leaves
\* last_result alone
LoggingSpanExporter_export(inner, lr) ==
    IF inner.kind = "returned"
    THEN [last_result |-> inner.result, last_error |-> NoError, out |-> Returned(inner.result)]
    ELSE \* except: last_error = e; raise
         [last_result |-> lr, last_error |-> inner.error, out |-> Raised(inner.error)]

\* the wrapper the host of this variant installs
WrapperExport(v, inner, lr) ==
    IF v = "root" THEN TrackingSpanExporter_export(inner, lr)
                  ELSE LoggingSpanExporter_export(inner, lr)

\* What the inner exporter's export can do in call number n: return a result
\* or raise.
InnerOutcomes(n) ==
    {Returned(r) : r \in {SUCCESS, FAILURE}}
        \cup {Raised(Exc(c, n)) : c \in ExceptionClasses}

(***************************************************************************)
(* Host                                                                    *)
(***************************************************************************)
\* the host's check with None taken for success
HostExitStatus_not_failure(lr) == IF lr # FAILURE THEN 0 ELSE 1

\* main, after provider.shutdown(): exit 0 if last_result == SUCCESS, else
\* sys.exit(1)
HostExitStatus(lr) == IF lr = SUCCESS THEN 0 ELSE 1

(***************************************************************************)
(* Delivery client: values                                                 *)
(***************************************************************************)
\* _export calls in one behaviour
MaxSends == 2
\* response bodies run up to PreviewLimit + MaxOver characters
MaxOver == 2

\* resp.text[:1000], len(resp.text) > 1000
PreviewLimit == 1000

\* HTTP status codes the collector answers with
StatusCodes == {200, 204, 304, 400, 429, 503}

\* resp.ok: requests' raise_for_status raises for 400 <= status < 600
RespOk(status) == ~(400 <= status /\ status < 600)

\* a text of n characters
Chars == <<"a", "b", "c">>
TextOfLen(n) == [i \in 1..n |-> Chars[(i % 3) + 1]]
BodyLens == {0, 1} \cup {PreviewLimit + d : d \in (-1)..MaxOver}
Bodies == {TextOfLen(n) : n \in BodyLens}

\* what one POST can do: the collector answers, or the transport raises
NoResponse == [kind |-> "none", status |-> 0, body |-> <<>>, exc |-> NoError]
Response(status, body) ==
    [kind |-> "response", status |-> status, body |-> body, exc |-> NoError]
PostRaises(e) == [kind |-> "exception", status |-> 0, body |-> <<>>, exc |-> e]
TransportResults(n) ==
    {Response(s, b) : s \in StatusCodes, b \in Bodies}
        \cup {PostRaises(Exc(c, n)) : c \in ExceptionClasses}

\* how an _export call ended: it returned resp, or it raised e
NoSend == [kind |-> "none", resp |-> NoResponse, error |-> NoError]
SendReturned(resp) == [kind |-> "returned", resp |-> resp, error |-> NoError]
SendRaised(e) == [kind |-> "raised", resp |-> NoResponse, error |-> e]

\* verify=False in every self._session.post(...)
VerifyArg == FALSE

\* The keyword options the hosts pass when they build the exporter:
\* create_otlp_exporter_no_ssl(endpoint, headers or None).
ExporterOptions == {"endpoint", "headers"}
\* names an option choosing the transport-security mode could have
SecurityModeOptions == {"verify", "insecure", "relaxed", "security_mode"}
\* the caller opted in to relaxed transport security
RelaxedOptIn == ExporterOptions \cap SecurityModeOptions # {}

\* Compression.NoCompression, Compression.Gzip, Compression.Deflate
Compressions == {"none", "gzip", "deflate"}

\* serialized payloads have up to MaxPayload bytes
MaxPayload == 3
\* byte values of a payload
Bytes == {0, 1}
RECURSIVE SeqsOfLen(_)
SeqsOfLen(n) ==
    IF n = 0 THEN {<<>>}
    ELSE {Append(s, b) : s \in SeqsOfLen(n - 1), b \in Bytes}
Payloads == UNION {SeqsOfLen(n) : n \in 0..MaxPayload}

InitVariant == variant \in Variants

InitPipeline ==
    /\ hpc = "run"
    /\ spansMade = 0
    /\ buffered = 0
    /\ last_result = None
    /\ last_error = NoError
    /\ exitStatus = NoExit
    /\ exportCalls = 0
    /\ lastInner = NoCall
    /\ lastOut = NoCall
    /\ anyFailed = FALSE

InitSend ==
    /\ spc = "idle"
    /\ sends = 0
    /\ attempts = <<>>
    /\ sendOut = NoSend
    /\ log = <<>>
    /\ compression \in Compressions
    /\ serialized_data = <<>>
    /\ data = <<>>
    /\ posted = <<>>

InitEndpoint ==
    /\ epc = "unresolved"
    /\ tracesEnv = <<>>
    /\ genericEnv = <<>>
    /\ endpoint = <<>>

\* a call on the exporter: the operation and its argument (the number of
\* spans of the batch, the timeout in ms, 0 for shutdown)
Call(op, arg) == [op |-> op, arg |-> arg]
NoApiCall == [op |-> "none", inner |-> NoCall, out |-> NoCall]

InitApi ==
    /\ closed = FALSE
    /\ wrapperCalls = <<>>
    /\ innerCalls = <<>>
    /\ lastApi = NoApiCall

Init == InitVariant /\ InitPipeline /\ InitSend /\ InitEndpoint /\ InitApi

\* The batch processor hands a batch of k buffered spans to the wrapper's
\* export; the processor catches what export raises, so the host goes on.
ExportBatch(k) ==
    \E inner \in InnerOutcomes(exportCalls + 1) :
        LET w == WrapperExport(variant, inner, last_result) IN
        /\ last_result' = w.last_result
        /\ last_error' = w.last_error
        /\ lastOut' = w.out
        /\ lastInner' = inner
        /\ anyFailed' = (anyFailed \/ inner.kind = "raised" \/ inner.result # SUCCESS)
        /\ exportCalls' = exportCalls + 1
        /\ buffered' = buffered - k

\* the workload ends a span: the processor buffers it
OnSpanEnd ==
    /\ hpc = "run"
    /\ spansMade < MaxSpans
    /\ spansMade' = spansMade + 1
    /\ buffered' = buffered + 1
    /\ UNCHANGED <<variant, hpc, last_result, last_error, exitStatus, exportCalls,
                   lastInner, lastOut, anyFailed, sendVars, endpointVars, apiVars>>

\* the processor's worker exports a batch while the workload runs
BackgroundFlush ==
    /\ hpc = "run"
    /\ \E k \in 1..buffered : ExportBatch(k)
    /\ UNCHANGED <<variant, hpc, spansMade, exitStatus, sendVars, endpointVars, apiVars>>

\* the workload raises: main's "except Exception" prints and exits 1
WorkloadRaises ==
    /\ hpc = "run"
    /\ hpc' = "exited"
    /\ exitStatus' = 1
    /\ UNCHANGED <<variant, spansMade, buffered, last_result, last_error, exportCalls,
                   lastInner, lastOut, anyFailed, sendVars, endpointVars, apiVars>>

\* the workload is over: agent_otel.main goes on to provider.force_flush(3000),
\* otel_llm_log.main straight to provider.shutdown()
WorkloadDone ==
    /\ hpc = "run"
    /\ hpc' = IF variant = "langgraph" THEN "force_flush" ELSE "shutdown"
    /\ UNCHANGED <<variant, spansMade, buffered, last_result, last_error, exitStatus,
                   exportCalls, lastInner, lastOut, anyFailed, sendVars, endpointVars, apiVars>>

\* provider.force_flush(3000) drains a batch
ForceFlushBatch ==
    /\ hpc = "force_flush"
    /\ \E k \in 1..buffered : ExportBatch(k)
    /\ UNCHANGED <<variant, hpc, spansMade, exitStatus, sendVars, endpointVars, apiVars>>

\* provider.force_flush(3000) returns: the buffer is drained, or the 3000 ms
\* are over
ForceFlushReturn ==
    /\ hpc = "force_flush"
    /\ hpc' = "shutdown"
    /\ UNCHANGED <<variant, spansMade, buffered, last_result, last_error, exitStatus,
                   exportCalls, lastInner, lastOut, anyFailed, sendVars, endpointVars, apiVars>>

\* provider.shutdown() drains a batch
ShutdownDrain ==
    /\ hpc = "shutdown"
    /\ \E k \in 1..buffered : ExportBatch(k)
    /\ UNCHANGED <<variant, hpc, spansMade, exitStatus, sendVars, endpointVars, apiVars>>

\* provider.shutdown() returns once the buffer is drained
ShutdownReturn ==
    /\ hpc = "shutdown"
    /\ buffered = 0
    /\ hpc' = "check"
    /\ UNCHANGED <<variant, spansMade, buffered, last_result, last_error, exitStatus,
                   exportCalls, lastInner, lastOut, anyFailed, sendVars, endpointVars, apiVars>>

\* main inspects the wrapper and exits
HostCheck ==
    /\ hpc = "check"
    /\ hpc' = "exited"
    /\ exitStatus' = HostExitStatus(last_result)
    /\ UNCHANGED <<variant, spansMade, buffered, last_result, last_error, exportCalls,
                   lastInner, lastOut, anyFailed, sendVars, endpointVars, apiVars>>

Next ==
    \/ OnSpanEnd
    \/ BackgroundFlush
    \/ WorkloadRaises
    \/ WorkloadDone
    \/ ForceFlushBatch
    \/ ForceFlushReturn
    \/ ShutdownDrain
    \/ ShutdownReturn
    \/ HostCheck

Spec == Init /\ [][Next]_vars

(***************************************************************************)
(* Claims about the wrapper and the host (checked under Spec)              *)
(***************************************************************************)
\* C1: after any sequence of export calls on the wrapper, last_result is the
\* outcome of the most recent call: the value it returned, and not SUCCESS
\* when it raised.
C1_LastResultIsMostRecentOutcome ==
    exportCalls > 0 =>
        /\ lastInner.kind = "returned" => last_result = lastInner.result
        /\ lastInner.kind = "raised" => last_result # SUCCESS

C3_FailureNeverDropped ==
    (hpc = "exited" /\ anyFailed) => exitStatus # 0

\* C4: whenever the inner exporter's export raises e, the wrapper stores e as
\* last_error and raises the same e to its caller; a raise never becomes a
\* normal return.
C4_RecordThenRethrow ==
    /\ lastInner.kind = "raised" =>
          /\ last_error = lastInner.error
          /\ lastOut = Raised(lastInner.error)
    /\ lastOut.kind = "returned" => lastInner.kind = "returned"

\* an export raised after an earlier export call had completed
C4_Witness ==
    /\ exportCalls >= 2
    /\ lastInner.kind = "raised"
    /\ lastOut.kind = "raised"

(***************************************************************************)
(* Delivery client: OTLPSpanExporterNoSSL._export                          *)
(***************************************************************************)
Ellipsis == <<".", ".", ".">>
EmptyMarker == <<"(", "e", "m", "p", "t", "y", ")">>

\* the preview without the cut
BodyPreview_uncut(text) == IF text # <<>> THEN text ELSE EmptyMarker

\* body_preview = (resp.text[:1000] + "...") if resp.text and
\*     len(resp.text) > 1000 else (resp.text or "(empty)")
BodyPreview(text) ==
    IF text # <<>> /\ Len(text) > PreviewLimit
    THEN SubSeq(text, 1, PreviewLimit) \o Ellipsis
    ELSE IF text # <<>> THEN text ELSE EmptyMarker

\* one record written by logger.error / logger.exception
LogRecord(event, status, preview) ==
    [event |-> event, status |-> status, body_preview |-> preview]

\* the except clause of the langgraph _export that catches an exception of
\* class cls: the first one, in source order, that matches
LogEventFor(cls) ==
    IF IsInstance(cls, "Timeout") THEN "timeout"
    ELSE IF IsInstance(cls, "ConnectionError") THEN "connection error"
    ELSE IF IsInstance(cls, "RequestException") THEN "request error"
    ELSE "unexpected error"

\* the langgraph _export turning a non-success response into an exception,
\* as raise_for_status would
Langgraph_export_raising(res) ==
    IF res.kind = "response" /\ RespOk(res.status)
    THEN [spc |-> "returned", out |-> SendReturned(res), log |-> <<>>]
    ELSE [spc |-> "raised", out |-> SendRaised(Exc("RequestException", 1)),
          log |-> <<LogRecord("request error", 0, <<>>)>>]

\* src/langgraph/otel_export.py _export, from the POST on: one POST; a
\* response that is not ok is logged and returned; an exception is logged
\* and re-raised.
Langgraph_export(res) ==
    IF res.kind = "response"
    THEN [spc |-> "returned",
          out |-> SendReturned(res),
          log |-> IF RespOk(res.status)
                  THEN <<>>
                  ELSE <<LogRecord("http error", res.status, BodyPreview(res.body))>>]
    ELSE [spc |-> "raised",
          out |-> SendRaised(res.exc),
          log |-> <<LogRecord(LogEventFor(res.exc.cls), 0, <<>>)>>]

\* a retry on every requests exception
RetryOn_any_request_exception(cls) == IsInstance(cls, "RequestException")

\* src/otel_llm_log.py _export: "except ConnectionError" around the first POST
RetryOn(cls) == IsInstance(cls, "ConnectionError")

\* src/otel_llm_log.py _export after its first POST: the response is
\* returned, a ConnectionError leads to the second POST, any other exception
\* propagates.  Nothing is logged.
Root_export_first(res) ==
    IF res.kind = "response"
    THEN [spc |-> "returned", out |-> SendReturned(res), log |-> <<>>]
    ELSE IF RetryOn(res.exc.cls)
         THEN [spc |-> "retry", out |-> NoSend, log |-> <<>>]
         ELSE [spc |-> "raised", out |-> SendRaised(res.exc), log |-> <<>>]

\* src/otel_llm_log.py _export after the POST in the except branch: the
\* response is returned, any exception propagates
Root_export_retry(res) ==
    IF res.kind = "response"
    THEN [spc |-> "returned", out |-> SendReturned(res), log |-> <<>>]
    ELSE [spc |-> "raised", out |-> SendRaised(res.exc), log |-> <<>>]

(***************************************************************************)
(* Payload compression in _export.  gzip and zlib are Python's standard    *)
(* library; they are modelled as lossless container codecs over byte       *)
(* sequences: a two-byte magic number, the payload run-length encoded, and *)
(* the trailer the stream gets when it is closed.                          *)
(***************************************************************************)
\* the length of the run of equal bytes s starts with
RECURSIVE RunLen(_)
RunLen(s) ==
    IF Len(s) >= 2 /\ s[2] = s[1] THEN 1 + RunLen(Tail(s))
    ELSE IF s = <<>> THEN 0 ELSE 1

\* the compressed body: <<run length, byte>> pairs
RECURSIVE Deflated(_)
Deflated(s) ==
    IF s = <<>> THEN <<>>
    ELSE <<RunLen(s), s[1]>> \o Deflated(SubSeq(s, RunLen(s) + 1, Len(s)))

RECURSIVE ByteSum(_)
ByteSum(s) == IF s = <<>> THEN 0 ELSE s[1] + ByteSum(Tail(s))
\* the check value of a payload
CheckValue(s) == (1 + ByteSum(s)) % 251

GzipMagic == <<31, 139>>
ZlibMagic == <<120, 156>>

\* what gzip.GzipFile(fileobj, mode="w") has written into fileobj after
\* write(s), before the stream is closed: no trailer yet
GzipUnclosed(s) == GzipMagic \o Deflated(s)
\* ... and after the with block has closed it: check value and size follow
GzipClosed(s) == GzipMagic \o Deflated(s) \o <<CheckValue(s), Len(s)>>
\* zlib.compress(s)
ZlibCompress(s) == ZlibMagic \o Deflated(s) \o <<CheckValue(s)>>

\* the data local with gzip_data.getvalue() taken before the stream is closed
ExportData_unclosed(c, s) ==
    IF c = "gzip" THEN GzipUnclosed(s)
    ELSE IF c = "deflate" THEN ZlibCompress(s)
    ELSE s

\* _export: data = serialized_data; Gzip: written through a GzipFile that the
\* with block closes, then gzip_data.getvalue(); Deflate: zlib.compress
ExportData(c, s) ==
    IF c = "gzip" THEN GzipClosed(s)
    ELSE IF c = "deflate" THEN ZlibCompress(s)
    ELSE s

\* one self._session.post(url, data, verify=False, timeout, cert) and its result
Attempt(res) == [verify |-> VerifyArg, result |-> res]

\* the exporter's export calls _export(serialized_data)
StartSend ==
    /\ spc \in {"idle", "returned", "raised"}
    /\ sends < MaxSends
    /\ sends' = sends + 1
    /\ spc' = "post"
    /\ attempts' = <<>>
    /\ sendOut' = NoSend
    /\ log' = <<>>
    /\ \E payload \in Payloads :
        /\ serialized_data' = payload
        /\ data' = ExportData(compression, payload)
    /\ posted' = <<>>
    /\ UNCHANGED <<variant, compression, pipelineVars, endpointVars, apiVars>>

\* the POST in the try block, and what _export does with its result
FirstPost ==
    /\ spc = "post"
    /\ \E res \in TransportResults(1) :
        LET step == IF variant = "root" THEN Root_export_first(res)
                                        ELSE Langgraph_export(res) IN
        /\ attempts' = Append(attempts, Attempt(res))
        /\ spc' = step.spc
        /\ sendOut' = step.out
        /\ log' = log \o step.log
    /\ posted' = Append(posted, data)
    /\ UNCHANGED <<variant, sends, compression, serialized_data, data,
                   pipelineVars, endpointVars, apiVars>>

\* the POST in "except ConnectionError" (src/otel_llm_log.py only)
RetryPost ==
    /\ spc = "retry"
    /\ \E res \in TransportResults(2) :
        LET step == Root_export_retry(res) IN
        /\ attempts' = Append(attempts, Attempt(res))
        /\ spc' = step.spc
        /\ sendOut' = step.out
        /\ log' = log \o step.log
    /\ posted' = Append(posted, data)
    /\ UNCHANGED <<variant, sends, compression, serialized_data, data,
                   pipelineVars, endpointVars, apiVars>>

NextSend ==
    \/ StartSend
    \/ FirstPost
    \/ RetryPost

SpecSend == Init /\ [][NextSend]_vars

\* the current _export call is over
SendOver == spc \in {"returned", "raised"}
\* the transport result of the last POST
LastResult == attempts[Len(attempts)].result
\* the POST failed with a connection error
ConnectionFailed(a) ==
    a.result.kind = "exception" /\ IsInstance(a.result.exc.cls, "ConnectionError")
\* the POST timed out
TimedOut(a) ==
    a.result.kind = "exception" /\ IsInstance(a.result.exc.cls, "Timeout")

(***************************************************************************)
(* Claims about the delivery client (checked under SpecSend)               *)
(***************************************************************************)
\* C5: in one _export call, a first POST that fails with a connection error
\* is followed by exactly one retry; no call makes more than 2 POSTs; and
\* when both POSTs fail with a connection error the call raises it after
\* exactly 2 POSTs.
C5_OneRetryOnConnectionError ==
    /\ Len(attempts) <= 2
    /\ (SendOver /\ ConnectionFailed(attempts[1])) =>
          /\ Len(attempts) = 2
          /\ ConnectionFailed(attempts[2]) =>
                (sendOut.kind = "raised" /\ sendOut.error = attempts[2].result.exc)

\* C6 as claimed: a POST followed by another POST of the same _export failed
\* with a connection error and was no response, no timeout and no other
\* exception; at most one POST follows the first.
C6_OnlyConnectionFailureRetried ==
    /\ Len(attempts) <= 2
    /\ \A i \in 1..(Len(attempts) - 1) :
          ConnectionFailed(attempts[i]) /\ ~TimedOut(attempts[i])

\* C6 as amended: a POST is followed by another POST of the same _export only
\* if it raised a ConnectionError (a connect timeout, which is a
\* ConnectionError and a Timeout at once, included), and at most once; a
\* response of any status, a read timeout and any other exception end the
\* call; the langgraph client never makes a second POST.
C6_OnlyConnectionErrorRetried ==
    /\ Len(attempts) <= 2
    /\ \A i \in 1..(Len(attempts) - 1) : ConnectionFailed(attempts[i])
    /\ variant = "langgraph" => Len(attempts) <= 1
    /\ (SendOver /\ ~ConnectionFailed(attempts[1])) => Len(attempts) = 1

\* a connect timeout on the first POST was followed by a second POST
C6_Witness ==
    /\ Len(attempts) = 2
    /\ attempts[1].result.exc.cls = "ConnectTimeout"
    /\ SendOver

C8_PreviewAtMostLimit ==
    \A i \in 1..Len(log) : Len(log[i].body_preview) <= PreviewLimit

\* C8 as amended: a non-empty body of at most 1000 characters is logged
\* whole and an empty body as "(empty)"; of a longer body the first 1000
\* characters are logged, followed by "...", so that the preview has at most
\* 1003 characters.
C8_PreviewIsCutBody ==
    \A i \in 1..Len(log) :
        log[i].event = "http error" =>
            LET body == LastResult.body
                preview == log[i].body_preview IN
            /\ Len(preview) <= PreviewLimit + Len(Ellipsis)
            /\ (body # <<>> /\ Len(body) <= PreviewLimit) => preview = body
            /\ body = <<>> => preview = EmptyMarker
            /\ Len(body) > PreviewLimit =>
                  /\ SubSeq(preview, 1, PreviewLimit) = SubSeq(body, 1, PreviewLimit)
                  /\ Len(preview) = PreviewLimit + Len(Ellipsis)

\* a non-success response with a body of more than 1000 characters was logged
C8_Witness ==
    /\ SendOver
    /\ Len(log) = 1
    /\ log[1].event = "http error"
    /\ Len(LastResult.body) > PreviewLimit + 1

\* C9: a POST is made without certificate validation only if the caller
\* opted in to relaxed transport security when it built the exporter; an
\* exporter built without opting in verifies certificates on every POST.
C9_NoVerifyOnlyOnOptIn ==
    \A i \in 1..Len(attempts) : (~attempts[i].verify) => RelaxedOptIn

(***************************************************************************)
(* Endpoint resolution: get_otlp_endpoint / _get_endpoint                  *)
(* Strings are sequences of characters.                                    *)
(***************************************************************************)
\* spaces around an environment value
MaxPad == 1
\* slashes at the end of an environment value
MaxSlashes == 2

\* DEFAULT_TRACES_ENDPOINT = "http://localhost:4318/v1/traces"
DEFAULT_TRACES_ENDPOINT ==
    <<"h", "t", "t", "p", ":", "/", "/",
      "l", "o", "c", "a", "l", "h", "o", "s", "t", ":", "4", "3", "1", "8",
      "/", "v", "1", "/", "t", "r", "a", "c", "e", "s">>
\* "v1/traces", the argument of endswith
V1Traces == <<"v", "1", "/", "t", "r", "a", "c", "e", "s">>
\* "/v1/traces", what the f-string appends
SlashV1Traces == <<"/">> \o V1Traces

IsSpace(c) == c \in {" ", "\t", "\n"}

RECURSIVE LStrip(_)
LStrip(s) == IF s # <<>> /\ IsSpace(Head(s)) THEN LStrip(Tail(s)) ELSE s

RECURSIVE RStrip(_)
RStrip(s) ==
    IF s # <<>> /\ IsSpace(s[Len(s)]) THEN RStrip(SubSeq(s, 1, Len(s) - 1)) ELSE s

\* str.strip()
Strip(s) == RStrip(LStrip(s))

\* str.rstrip("/")
RECURSIVE RStripSlash(_)
RStripSlash(s) ==
    IF s # <<>> /\ s[Len(s)] = "/" THEN RStripSlash(SubSeq(s, 1, Len(s) - 1)) ELSE s

\* str.endswith(suffix)
EndsWith(s, suffix) ==
    /\ Len(s) >= Len(suffix)
    /\ SubSeq(s, Len(s) - Len(suffix) + 1, Len(s)) = suffix

\* the resolution with the suffix appended whatever the base ends with
get_otlp_endpoint_always_append(traces, generic) ==
    LET explicit == Strip(traces)
        base == RStripSlash(Strip(generic)) IN
    IF explicit # <<>> THEN explicit
    ELSE IF base = <<>> THEN DEFAULT_TRACES_ENDPOINT
    ELSE base \o SlashV1Traces

\* get_otlp_endpoint() of src/langgraph/otel_export.py and _get_endpoint() of
\* src/otel_llm_log.py (the same code), on the values of
\* OTEL_EXPORTER_OTLP_TRACES_ENDPOINT and OTEL_EXPORTER_OTLP_ENDPOINT, where
\* os.environ.get(name, "") gives "" for an unset variable
get_otlp_endpoint(traces, generic) ==
    LET explicit == Strip(traces)
        base == RStripSlash(Strip(generic)) IN
    IF explicit # <<>> THEN explicit
    ELSE IF base = <<>> THEN DEFAULT_TRACES_ENDPOINT
    ELSE IF EndsWith(base, V1Traces) THEN base
    ELSE base \o SlashV1Traces

\* environment values: "" (unset or empty), a collector URL, one that already
\* names the traces path, and the bare path, each with spaces around it and
\* slashes at its end
Collector == <<"h", "t", "t", "p", ":", "/", "/", "c", ":", "4", "3", "1", "8">>
Pad(n) == [i \in 1..n |-> " "]
Slashes(n) == [i \in 1..n |-> "/"]
EnvCores == {<<>>, Collector, Collector \o SlashV1Traces, V1Traces}
EnvValues ==
    {Pad(l) \o core \o Slashes(k) \o Pad(r) :
        core \in EnvCores, k \in 0..MaxSlashes, l \in 0..MaxPad, r \in 0..MaxPad}

\* the process starts with some environment
InitEndpointEnv ==
    /\ InitVariant
    /\ InitPipeline
    /\ InitSend
    /\ InitApi
    /\ epc = "unresolved"
    /\ tracesEnv \in EnvValues
    /\ genericEnv \in EnvValues
    /\ endpoint = <<>>

\* endpoint = get_otlp_endpoint()
ResolveEndpoint ==
    /\ epc = "unresolved"
    /\ endpoint' = get_otlp_endpoint(tracesEnv, genericEnv)
    /\ epc' = "resolved"
    /\ UNCHANGED <<variant, pipelineVars, sendVars, tracesEnv, genericEnv, apiVars>>

NextEndpoint == ResolveEndpoint

SpecEndpoint == InitEndpointEnv /\ [][NextEndpoint]_vars

(***************************************************************************)
(* Claim about endpoint resolution (checked under SpecEndpoint)            *)
(***************************************************************************)
\* s without the spaces around it, said without recursion
NonSpaces(s) == {i \in 1..Len(s) : ~IsSpace(s[i])}
Trimmed(s) ==
    IF NonSpaces(s) = {} THEN <<>>
    ELSE LET lo == CHOOSE i \in NonSpaces(s) : \A j \in NonSpaces(s) : i <= j
             hi == CHOOSE i \in NonSpaces(s) : \A j \in NonSpaces(s) : i >= j IN
         SubSeq(s, lo, hi)
\* s without the slashes at its end
NonSlashes(s) == {i \in 1..Len(s) : s[i] # "/"}
WithoutEndSlashes(s) ==
    IF NonSlashes(s) = {} THEN <<>>
    ELSE SubSeq(s, 1, CHOOSE i \in NonSlashes(s) : \A j \in NonSlashes(s) : i >= j)
\* the environment value is set: non-empty after trimming
IsSet(s) == Trimmed(s) # <<>>

DecodeFailed == [ok |-> FALSE, payload |-> <<>>]
Decoded(s) == [ok |-> TRUE, payload |-> s]

RECURSIVE Inflated(_)
Inflated(body) ==
    IF body = <<>> THEN <<>>
    ELSE [i \in 1..body[1] |-> body[2]] \o Inflated(SubSeq(body, 3, Len(body)))

GzipDecompress(d) ==
    IF Len(d) < 4 \/ SubSeq(d, 1, 2) # GzipMagic \/ (Len(d) % 2) # 0
    THEN DecodeFailed
    ELSE LET s == Inflated(SubSeq(d, 3, Len(d) - 2)) IN
         IF d[Len(d) - 1] = CheckValue(s) /\ d[Len(d)] = Len(s)
         THEN Decoded(s) ELSE DecodeFailed

ZlibDecompress(d) ==
    IF Len(d) < 3 \/ SubSeq(d, 1, 2) # ZlibMagic \/ (Len(d) % 2) # 1
    THEN DecodeFailed
    ELSE LET s == Inflated(SubSeq(d, 3, Len(d) - 1)) IN
         IF d[Len(d)] = CheckValue(s) THEN Decoded(s) ELSE DecodeFailed

\* C11: the bytes of every POST are the serialized data unchanged when the
\* compression is none, and with gzip or deflate the matching decompression
\* of the bytes gives back exactly the serialized data.
C11_CompressionReversible ==
    \A i \in 1..Len(posted) :
        /\ compression = "none" => posted[i] = serialized_data
        /\ compression = "gzip" => GzipDecompress(posted[i]) = Decoded(serialized_data)
        /\ compression = "deflate" => ZlibDecompress(posted[i]) = Decoded(serialized_data)

\* a gzip-compressed payload of at least two different bytes was posted
\* twice (the POST and its retry)
C11_Witness ==
    /\ compression = "gzip"
    /\ Len(posted) = 2
    /\ Len(serialized_data) >= 2
    /\ serialized_data[1] # serialized_data[2]
    /\ posted[2] # serialized_data

(***************************************************************************)
(* The wrapper as a component: its owner calls export, force_flush and     *)
(* shutdown on it in any order (SpecApi).  The inner exporter's export,    *)
(* force_flush and shutdown are inherited from the SDK's OTLPSpanExporter: *)
(* src/ has no closed flag and no ClosedError, in the wrapper or in        *)
(* OTLPSpanExporterNoSSL.                                                  *)
(***************************************************************************)
\* calls on the wrapper in one behaviour
MaxCalls == 3

\* timeout_millis values: main's force_flush(3000), and the default 30000
Timeouts == {3000, 30000}

\* what self._inner.force_flush(timeout_millis) can return
FlushOutcomes == {Returned("True"), Returned("False")}
\* what self._inner.shutdown() does: it returns None, on a repeated call too
ShutdownOutcomes == {Returned(None)}

\* shutdown() that also forgets the recorded outcome
Wrapper_shutdown_reset(inner, lr, le) ==
    [last_result |-> None, last_error |-> NoError,
     calls |-> <<Call("shutdown", 0)>>,
     out |-> IF inner.kind = "returned" THEN Returned(None) ELSE inner]

\* LoggingSpanExporter.shutdown / TrackingSpanExporter.shutdown:
\*     self._inner.shutdown()
\* inner is what that call does, lr and le the wrapper's fields before the
\* call.  The result: the fields after the call, the calls made on the inner
\* exporter, and what the caller gets.
Wrapper_shutdown(inner, lr, le) ==
    [last_result |-> lr, last_error |-> le,
     calls |-> <<Call("shutdown", 0)>>,
     out |-> IF inner.kind = "returned" THEN Returned(None) ELSE inner]

\* force_flush that drops its argument: the inner call gets the default
Wrapper_force_flush_default(t, inner, lr, le) ==
    [last_result |-> lr, last_error |-> le,
     calls |-> <<Call("force_flush", 30000)>>,
     out |-> inner]

\* LoggingSpanExporter.force_flush / TrackingSpanExporter.force_flush:
\*     return self._inner.force_flush(timeout_millis)
Wrapper_force_flush(t, inner, lr, le) ==
    [last_result |-> lr, last_error |-> le,
     calls |-> <<Call("force_flush", t)>>,
     out |-> inner]

\* the call export(spans) makes on the inner exporter:
\*     self._inner.export(spans)
Wrapper_export_calls(spans) == <<Call("export", spans)>>

\* the owner calls export(spans)
ApiExport ==
    /\ Len(wrapperCalls) < MaxCalls
    /\ \E spans \in 1..MaxSpans, inner \in InnerOutcomes(exportCalls + 1) :
        LET w == WrapperExport(variant, inner, last_result) IN
        /\ last_result' = w.last_result
        /\ last_error' = w.last_error
        /\ lastOut' = w.out
        /\ lastInner' = inner
        /\ lastApi' = [op |-> "export", inner |-> inner, out |-> w.out]
        /\ wrapperCalls' = Append(wrapperCalls, Call("export", spans))
        /\ innerCalls' = innerCalls \o Wrapper_export_calls(spans)
    /\ anyFailed' = (anyFailed \/ lastInner'.kind = "raised" \/ lastInner'.result # SUCCESS)
    /\ exportCalls' = exportCalls + 1
    /\ UNCHANGED <<variant, hpc, spansMade, buffered, exitStatus, closed,
                   sendVars, endpointVars>>

\* the owner calls force_flush(t)
ApiForceFlush ==
    /\ Len(wrapperCalls) < MaxCalls
    /\ \E t \in Timeouts, inner \in FlushOutcomes :
        LET w == Wrapper_force_flush(t, inner, last_result, last_error) IN
        /\ last_result' = w.last_result
        /\ last_error' = w.last_error
        /\ lastApi' = [op |-> "force_flush", inner |-> inner, out |-> w.out]
        /\ wrapperCalls' = Append(wrapperCalls, Call("force_flush", t))
        /\ innerCalls' = innerCalls \o w.calls
    /\ UNCHANGED <<variant, hpc, spansMade, buffered, exitStatus, exportCalls,
                   lastInner, lastOut, anyFailed, closed, sendVars, endpointVars>>

\* the owner calls shutdown()
ApiShutdown ==
    /\ Len(wrapperCalls) < MaxCalls
    /\ \E inner \in ShutdownOutcomes :
        LET w == Wrapper_shutdown(inner, last_result, last_error) IN
        /\ last_result' = w.last_result
        /\ last_error' = w.last_error
        /\ lastApi' = [op |-> "shutdown", inner |-> inner, out |-> w.out]
        /\ wrapperCalls' = Append(wrapperCalls, Call("shutdown", 0))
        /\ innerCalls' = innerCalls \o w.calls
        /\ closed' = (closed \/ \E i \in 1..Len(w.calls) : w.calls[i].op = "shutdown")
    /\ UNCHANGED <<variant, hpc, spansMade, buffered, exitStatus, exportCalls,
                   lastInner, lastOut, anyFailed, sendVars, endpointVars>>

NextApi ==
    \/ ApiExport
    \/ ApiForceFlush
    \/ ApiShutdown

SpecApi == Init /\ [][NextApi]_vars

\* the step is a call of op on the wrapper
IsCallOf(op) ==
    /\ Len(wrapperCalls') = Len(wrapperCalls) + 1
    /\ wrapperCalls'[Len(wrapperCalls')].op = op
\* the calls the step made on the inner exporter
NewInnerCalls == SubSeq(innerCalls', Len(innerCalls) + 1, Len(innerCalls'))

C13_ExportAfterShutdownFailsClosed ==
    (closed /\ lastApi.op = "export") =>
        /\ lastApi.out.kind = "raised"
        /\ lastApi.out.error.cls = "ClosedError"
        /\ innerCalls[Len(innerCalls)].op # "export"

(***************************************************************************)
(* C15                                                                     *)
(***************************************************************************)
\* C15: the wrapper is transparent.  Every export, shutdown and force_flush
\* call on the wrapper makes exactly one call of the same operation, with the
\* same argument, on the inner exporter, so the inner exporter sees the
\* wrapper's calls one for one and in order; export returns the value the
\* inner export returned, and force_flush(t) returns the inner force_flush(t)
\* result.
C15_WrapperTransparent ==
    /\ innerCalls = wrapperCalls
    /\ (lastApi.op = "export" /\ lastApi.inner.kind = "returned") =>
           lastApi.out = lastApi.inner
    /\ lastApi.op = "force_flush" => lastApi.out = lastApi.inner

\* export, force_flush(3000) and shutdown were all called, and the inner
\* force_flush returned False
C15_Witness ==
    /\ Len(wrapperCalls) = 3
    /\ wrapperCalls[1] = Call("export", 2)
    /\ wrapperCalls[2] = Call("shutdown", 0)
    /\ wrapperCalls[3] = Call("force_flush", 3000)
    /\ last_result = FAILURE
    /\ lastApi.out = Returned("False")

(***************************************************************************)
(* C16                                                                     *)
(***************************************************************************)
\* C16: after every completed export call, last_error is set if and only if
\* the most recent export call raised, and whenever last_error is set,
\* last_result is FAILURE.
C16_ErrorImpliesFailure ==
    exportCalls > 0 =>
        /\ (last_error # NoError) <=> (lastInner.kind = "raised")
        /\ (last_error # NoError) => last_result = FAILURE

====
